---- MODULE Spec2Model ----
(***************************************************************************)
(* Weather-code catalog and historical analysis of the weather dashboard   *)
(* (src/src/lib/geolocation.ts, lines 774-894), followed by its React      *)
(* components and services.                                                *)
(*                                                                         *)
(* The three exported functions are pure.  A behaviour of Spec is a        *)
(* sequence of calls of them: Init draws the function and its arguments,   *)
(* the action named after the function applies it and stores the           *)
(* completion in ret.  The components (the pages, CitySearch, the          *)
(* WeatherHistory view) and GeolocationService have specifications of      *)
(* their own further down; component tells which one a behaviour runs.     *)
(*                                                                         *)
(* Conventions.                                                            *)
(*  - Slovenian descriptions are written without diacritics (the strings   *)
(*    of the module are ASCII); the 28 descriptions stay pairwise          *)
(*    different.                                                           *)
(*  - A JS number is a record.  Num(n, d) names the binary64 value nearest *)
(*    to the fraction n/d (the value of that decimal literal); NaN,        *)
(*    Infinity and -Infinity are kinds of their own; the result of an      *)
(*    addition, multiplication or division is the binary64 value itself,   *)
(*    computed with round-to-nearest-even.  The sign of zero is not        *)
(*    modelled.                                                            *)
(*  - A JS value returned by a function is a record tagged by "type"; a    *)
(*    completion is a return of a value or a throw of an error name.       *)
(***************************************************************************)
EXTENDS Integers, Sequences, FiniteSets, TLC

VARIABLES
    WEATHER_CODES,   \* the module-level catalog object
    fn,              \* the function that is called
    weatherCode,     \* argument of getWeatherIcon / getWeatherDescription
    isDay,           \* argument of getWeatherIcon
    historicalData,  \* argument of analyzeWeatherHistory
    pc,              \* "call" before the body has run, "done" after
    ret,             \* the completion of the call
    component,       \* the component or service that is running
    state,           \* its useState fields (and props), as a record
    calls,           \* its async calls in flight, each suspended at an await
    observed         \* history of the run, read by the properties only

libVars == <<WEATHER_CODES, fn, weatherCode, isDay, historicalData, pc, ret>>
uiVars == <<component, state, calls, observed>>
vars == <<WEATHER_CODES, fn, weatherCode, isDay, historicalData, pc, ret,
          component, state, calls, observed>>

(***************************************************************************)
(* Bounds                                                                  *)
(***************************************************************************)
CodeRange == 1000
MinCode == -CodeRange
MaxCode == CodeRange
FarCode == 9999
MaxDays == 3
MaxCodeDays == 4

(***************************************************************************)
(* JS values and completions                                               *)
(***************************************************************************)
Str(s) == [type |-> "string", str |-> s]
Undefined == [type |-> "undefined"]
Null == [type |-> "null"]

Return(v) == [completion |-> "return", value |-> v]
Throw(e) == [completion |-> "throw", error |-> e]
NotReturned == [completion |-> "pending"]

(***************************************************************************)
(* JS numbers                                                              *)
(***************************************************************************)
Abs(i) == IF i < 0 THEN -i ELSE i

RECURSIVE GCD(_, _)
GCD(a, b) == IF b = 0 THEN a ELSE GCD(b, a % b)

\* the binary64 value nearest to n/d (d > 0), named by n/d in lowest terms
Num(n, d) ==
    LET g == GCD(Abs(n), d)
    IN  [kind |-> "finite", n |-> n \div g, d |-> d \div g]

NaN == [kind |-> "NaN", n |-> 0, d |-> 1]
PosInfinity == [kind |-> "Infinity", n |-> 1, d |-> 1]
NegInfinity == [kind |-> "-Infinity", n |-> -1, d |-> 1]

IsFinite(a) == a.kind = "finite"
Sign(a) == IF a.n > 0 THEN 1 ELSE IF a.n < 0 THEN -1 ELSE 0
Signed(s) == IF s > 0 THEN PosInfinity ELSE IF s < 0 THEN NegInfinity ELSE NaN

\* a < b and a <= b on named numbers that are not NaN (naming is monotonic,
\* and different fractions of at most two decimals name different values)
Less(a, b) ==
    IF IsFinite(a) /\ IsFinite(b)
    THEN a.n * b.d < b.n * a.d
    ELSE \/ a.kind = "-Infinity" /\ b.kind # "-Infinity"
         \/ b.kind = "Infinity" /\ a.kind # "Infinity"
Leq(a, b) == a = b \/ Less(a, b)

(***************************************************************************)
(* IEEE-754 binary64 arithmetic                                            *)
(*                                                                         *)
(* A natural number of up to 75 bits is a sequence of Limbs limbs of 15    *)
(* bits, least significant first.  A binary64 value is (-1)^neg * m * 2^e  *)
(* with m = 0 or 2^52 <= m < 2^53.                                         *)
(***************************************************************************)
LimbBits == 15
Limbs == 5
LimbBase == 2 ^ LimbBits

\* the limbs F(1), ..., F(Limbs) as a tuple
Tabulate(F(_)) == <<F(1), F(2), F(3), F(4), F(Limbs)>>

Big(n) == Tabulate(LAMBDA i : IF i = 1 THEN n % LimbBase
                              ELSE IF i = 2 THEN n \div LimbBase ELSE 0)
BigZero == Big(0)
Limb(x, i) == IF i \in 1..Limbs THEN x[i] ELSE 0
\* the value of a natural number below 2^30
Small(x) == x[1] + LimbBase * x[2]

\* -1, 0, 1 as x < y, x = y, x > y
BigCmp(x, y) ==
    LET D == {i \in 1..Limbs : x[i] # y[i]}
    IN  IF D = {} THEN 0
        ELSE LET t == CHOOSE i \in D : \A j \in D : j <= i
             IN  IF x[t] < y[t] THEN -1 ELSE 1

RECURSIVE CarryInto(_, _, _)
\* the carry into limb i of x + y + c
CarryInto(x, y, i) ==
    IF i = 1 THEN 0 ELSE (x[i - 1] + y[i - 1] + CarryInto(x, y, i - 1)) \div LimbBase

BigAdd(x, y) == Tabulate(LAMBDA i : (x[i] + y[i] + CarryInto(x, y, i)) % LimbBase)

RECURSIVE BorrowFrom(_, _, _)
\* the borrow taken from limb i of x - y (x >= y)
BorrowFrom(x, y, i) ==
    IF i = 1 THEN 0 ELSE IF x[i - 1] - y[i - 1] - BorrowFrom(x, y, i - 1) < 0 THEN 1 ELSE 0

BigSub(x, y) == Tabulate(LAMBDA i : (x[i] - y[i] - BorrowFrom(x, y, i)) % LimbBase)

RECURSIVE MulCarry(_, _, _)
MulCarry(x, k, i) ==
    IF i = 1 THEN 0 ELSE (x[i - 1] * k + MulCarry(x, k, i - 1)) \div LimbBase

\* x * k for 0 <= k < 2^15
BigMulSmall(x, k) == Tabulate(LAMBDA i : (x[i] * k + MulCarry(x, k, i)) % LimbBase)

RECURSIVE DivRem(_, _, _)
\* the remainder left above limb i in the long division of x by k
DivRem(x, k, i) ==
    IF i > Limbs THEN 0 ELSE (DivRem(x, k, i + 1) * LimbBase + x[i]) % k

\* quotient and remainder of x by k, 0 < k < 2^15
BigDivSmall(x, k) ==
    [q |-> Tabulate(LAMBDA i : (DivRem(x, k, i + 1) * LimbBase + x[i]) \div k),
     r |-> DivRem(x, k, 1)]

\* x * 2^s and floor(x / 2^s)
ShiftLeft(x, s) ==
    LET q == s \div LimbBits
        t == s % LimbBits
    IN  Tabulate(LAMBDA i : ((Limb(x, i - q) * 2 ^ t) % LimbBase)
                            + (Limb(x, i - q - 1) \div 2 ^ (LimbBits - t)))

ShiftRight(x, s) ==
    LET q == s \div LimbBits
        t == s % LimbBits
    IN  Tabulate(LAMBDA i : (Limb(x, i + q) \div 2 ^ t)
                            + ((Limb(x, i + q + 1) % 2 ^ t) * 2 ^ (LimbBits - t)))

\* the number of bits of x
BitLen(x) ==
    LET N == {i \in 1..Limbs : x[i] # 0}
    IN  IF N = {} THEN 0
        ELSE LET t == CHOOSE i \in N : \A j \in N : j <= i
                 b == CHOOSE b \in 1..LimbBits : 2 ^ (b - 1) <= x[t] /\ x[t] < 2 ^ b
             IN  LimbBits * (t - 1) + b

Binary(neg, m, e) == [kind |-> "binary", neg |-> neg, m |-> m, e |-> e]
BinaryZero == Binary(FALSE, BigZero, 0)

\* the binary64 value nearest to (-1)^neg * (X + f) * 2^e, ties to even,
\* where 0 < f < 1 if sticky and f = 0 otherwise (X of 54 bits or more when
\* sticky)
RoundToBinary(neg, X, e, sticky) ==
    LET len == BitLen(X)
    IN  IF len = 0 THEN BinaryZero
        ELSE IF len <= 53 THEN Binary(neg, ShiftLeft(X, 53 - len), e - (53 - len))
        ELSE LET s == len - 53
                 Y == ShiftRight(X, s - 1)
                 M == ShiftRight(X, s)
                 half == Y[1] % 2 = 1
                 rest == sticky \/ ShiftLeft(Y, s - 1) # X
                 up == half /\ (rest \/ M[1] % 2 = 1)
                 R == IF up THEN BigAdd(M, Big(1)) ELSE M
             IN  IF BitLen(R) = 54
                 THEN Binary(neg, ShiftRight(R, 1), e + s + 1)
                 ELSE Binary(neg, R, e + s)

\* the binary64 value nearest to (-1)^neg * n / d, 0 <= n < 2^15, 0 < d < 2^15:
\* the value of a decimal literal, and of the quotient of two integers
FromRatio(neg, n, d) ==
    LET D == BigDivSmall(ShiftLeft(Big(n), 60), d)
    IN  RoundToBinary(neg, D.q, -60, D.r # 0)

\* x / k for a positive integer k < 2^15
BinaryDivSmall(x, k) ==
    LET D == BigDivSmall(ShiftLeft(x.m, 20), k)
    IN  RoundToBinary(x.neg, D.q, x.e - 20, D.r # 0)

\* x * k for a positive integer k < 2^15
BinaryMulSmall(x, k) == RoundToBinary(x.neg, BigMulSmall(x.m, k), x.e, FALSE)

\* x + y
BinaryAdd(x, y) ==
    IF BitLen(x.m) = 0 THEN y
    ELSE IF BitLen(y.m) = 0 THEN x
    ELSE LET hi == IF x.e >= y.e THEN x ELSE y
             lo == IF x.e >= y.e THEN y ELSE x
             d == hi.e - lo.e
             far == d > 20
             X1 == ShiftLeft(hi.m, IF far THEN 20 ELSE d)
             X2 == IF far THEN ShiftRight(lo.m, d - 20) ELSE lo.m
             e == IF far THEN hi.e - 20 ELSE lo.e
             lost == far
         IN  IF hi.neg = lo.neg
             THEN RoundToBinary(hi.neg, BigAdd(X1, X2), e, lost)
             ELSE IF far
                  THEN RoundToBinary(hi.neg, BigSub(BigSub(X1, X2), Big(1)), e, TRUE)
                  ELSE IF BigCmp(X1, X2) = 0 THEN BinaryZero
                  ELSE IF BigCmp(X1, X2) > 0
                       THEN RoundToBinary(hi.neg, BigSub(X1, X2), e, FALSE)
                       ELSE RoundToBinary(lo.neg, BigSub(X2, X1), e, FALSE)

\* Math.round(x) = floor(x + 1/2) for |x| < 2^28, as an integer
BinaryRound(x) ==
    IF BitLen(x.m) = 0 THEN 0
    ELSE LET f == -x.e
             Y == ShiftRight(x.m, f - 1)
             exact == ShiftLeft(Y, f - 1) = x.m
             y == Small(Y)
             a == (y + 1) \div 2
             tie == y % 2 = 1 /\ exact
         IN  IF x.neg THEN (IF tie THEN 1 - a ELSE -a) ELSE a

\* the integer part of x, and x rounded to the nearest integer with ties
\* away from zero, for |x| < 2^28
BinaryTrunc(x) ==
    IF BitLen(x.m) = 0 THEN 0
    ELSE LET t == Small(ShiftRight(x.m, -x.e))
         IN  IF x.neg THEN -t ELSE t

BinaryRoundAway(x) ==
    IF BitLen(x.m) = 0 THEN 0
    ELSE LET a == (Small(ShiftRight(x.m, -x.e - 1)) + 1) \div 2
         IN  IF x.neg THEN -a ELSE a

\* the binary64 value of a finite number
ToBinary(a) ==
    IF a.kind = "binary" THEN a ELSE FromRatio(a.n < 0, Abs(a.n), a.d)

IsNumber(a) == a.kind \in {"finite", "binary"}
SignOf(a) ==
    IF a.kind = "binary"
    THEN (IF BitLen(a.m) = 0 THEN 0 ELSE IF a.neg THEN -1 ELSE 1)
    ELSE Sign(a)

\* a + b
Add(a, b) ==
    IF a.kind = "NaN" \/ b.kind = "NaN" THEN NaN
    ELSE IF IsNumber(a) /\ IsNumber(b) THEN BinaryAdd(ToBinary(a), ToBinary(b))
    ELSE IF IsNumber(a) THEN b
    ELSE IF IsNumber(b) \/ a = b THEN a
    ELSE NaN

\* a * b, for b a non-negative integer below 2^15
Mul(a, b) ==
    IF a.kind = "NaN" \/ b.kind = "NaN" THEN NaN
    ELSE IF IsNumber(a) /\ IsNumber(b) THEN BinaryMulSmall(ToBinary(a), b.n)
    ELSE Signed(SignOf(a) * SignOf(b))

\* a / b, for b a non-negative integer below 2^15; the quotient of two
\* integers is the binary64 value nearest to their ratio, which Num names
Div_truncating(a, b) ==
    IF a.kind = "NaN" \/ b.kind = "NaN" THEN NaN
    ELSE IF IsNumber(a) /\ IsNumber(b)
         THEN IF b.n = 0
              THEN Signed(SignOf(a))
              ELSE IF a.kind = "finite" /\ a.d = 1
                   THEN Num(SignOf(a) * (Abs(a.n) \div b.n), 1)
                   ELSE Num(BinaryTrunc(BinaryDivSmall(ToBinary(a), b.n)), 1)
    ELSE IF IsNumber(b) THEN Signed(SignOf(a))
    ELSE IF IsNumber(a) THEN Num(0, 1)
    ELSE NaN

Div(a, b) ==
    IF a.kind = "NaN" \/ b.kind = "NaN" THEN NaN
    ELSE IF IsNumber(a) /\ IsNumber(b)
         THEN IF b.n = 0
              THEN Signed(SignOf(a))
              ELSE IF a.kind = "finite" /\ a.d = 1
                   THEN Num(a.n, b.n)
                   ELSE BinaryDivSmall(ToBinary(a), b.n)
    ELSE IF IsNumber(b) THEN Signed(SignOf(a))
    ELSE IF IsNumber(a) THEN Num(0, 1)
    ELSE NaN

\* Math.round: the integer floor(x + 1/2); NaN and the infinities are kept
MathRound_trunc(a) ==
    IF IsNumber(a) THEN Num(BinaryTrunc(ToBinary(a)), 1) ELSE a

MathRound_halfAway(a) ==
    IF IsNumber(a) THEN Num(BinaryRoundAway(ToBinary(a)), 1) ELSE a

MathRound(a) ==
    IF IsNumber(a) THEN Num(BinaryRound(ToBinary(a)), 1) ELSE a

\* Math.max(...xs) and Math.min(...xs) of an array of finite numbers
RECURSIVE MathMax(_)
MathMax(xs) ==
    IF xs = <<>> THEN NegInfinity
    ELSE LET m == MathMax(Tail(xs))
         IN  IF Less(Head(xs), m) THEN m ELSE Head(xs)

RECURSIVE MathMin(_)
MathMin(xs) ==
    IF xs = <<>> THEN PosInfinity
    ELSE LET m == MathMin(Tail(xs))
         IN  IF Less(m, Head(xs)) THEN m ELSE Head(xs)

\* xs.reduce((a, b) => a + b, 0)
RECURSIVE SumFrom_overwrite(_, _)
SumFrom_overwrite(acc, xs) ==
    IF xs = <<>> THEN acc ELSE SumFrom_overwrite(Head(xs), Tail(xs))

RECURSIVE SumFrom(_, _)
SumFrom(acc, xs) ==
    IF xs = <<>> THEN acc ELSE SumFrom(Add(acc, Head(xs)), Tail(xs))

Sum(xs) == SumFrom(Num(0, 1), xs)

\* Math.round(x * 10) / 10
RoundOneDecimal_integer(x) == MathRound(x)

RoundOneDecimal(x) == Div(MathRound(Mul(x, Num(10, 1))), Num(10, 1))

(***************************************************************************)
(* The catalog                                                             *)
(***************************************************************************)
IconName(name) == [typeof |-> "string", name |-> name]
DayNight(d, n) == [typeof |-> "object", day |-> d, night |-> n]
Entry(desc, icon) == [description |-> desc, icon |-> icon]

WeatherCodesTable ==
       0 :> Entry("Jasno", DayNight("clear-day", "clear-night"))
    @@ 1 :> Entry("Pretezno jasno", DayNight("clear-day", "clear-night"))
    @@ 2 :> Entry("Delno oblacno", DayNight("cloudy-1-day", "cloudy-1-night"))
    @@ 3 :> Entry("Oblacno", DayNight("cloudy-3-day", "cloudy-3-night"))
    @@ 45 :> Entry("Megla", DayNight("fog-day", "fog-night"))
    @@ 48 :> Entry("Megla z ivjem", DayNight("fog-day", "fog-night"))
    @@ 51 :> Entry("Rahlo rosenje", DayNight("rainy-1-day", "rainy-1-night"))
    @@ 53 :> Entry("Zmerno rosenje", DayNight("rainy-2-day", "rainy-2-night"))
    @@ 55 :> Entry("Gosto rosenje", DayNight("rainy-3-day", "rainy-3-night"))
    @@ 56 :> Entry("Rahlo ledeno rosenje", IconName("rain-and-sleet-mix"))
    @@ 57 :> Entry("Gosto ledeno rosenje", IconName("rain-and-sleet-mix"))
    @@ 61 :> Entry("Rahlo dezevje", DayNight("rainy-1-day", "rainy-1-night"))
    @@ 63 :> Entry("Zmerno dezevje", DayNight("rainy-2-day", "rainy-2-night"))
    @@ 65 :> Entry("Mocno dezevje", DayNight("rainy-3-day", "rainy-3-night"))
    @@ 66 :> Entry("Rahlo ledeno dezevje", IconName("rain-and-sleet-mix"))
    @@ 67 :> Entry("Mocno ledeno dezevje", IconName("rain-and-sleet-mix"))
    @@ 71 :> Entry("Rahlo snezenje", DayNight("snowy-1-day", "snowy-1-night"))
    @@ 73 :> Entry("Zmerno snezenje", DayNight("snowy-2-day", "snowy-2-night"))
    @@ 75 :> Entry("Mocno snezenje", DayNight("snowy-3-day", "snowy-3-night"))
    @@ 77 :> Entry("Snezna zrna", DayNight("snowy-1-day", "snowy-1-night"))
    @@ 80 :> Entry("Rahle dezne plohe", DayNight("rainy-1-day", "rainy-1-night"))
    @@ 81 :> Entry("Zmerne dezne plohe", DayNight("rainy-2-day", "rainy-2-night"))
    @@ 82 :> Entry("Mocne dezne plohe", DayNight("rainy-3-day", "rainy-3-night"))
    @@ 85 :> Entry("Rahle snezne plohe", DayNight("snowy-1-day", "snowy-1-night"))
    @@ 86 :> Entry("Mocne snezne plohe", DayNight("snowy-3-day", "snowy-3-night"))
    @@ 95 :> Entry("Nevihta", IconName("thunderstorms"))
    @@ 96 :> Entry("Nevihta z rahlo toco",
                   DayNight("scattered-thunderstorms-day", "scattered-thunderstorms-night"))
    @@ 99 :> Entry("Nevihta z mocno toco", IconName("severe-thunderstorm"))

\* WEATHER_CODES[code] is undefined (falsy) for a key the object does not have
HasEntry(code) == code \in DOMAIN WEATHER_CODES

\* lines 826-829: the branch on typeof icon
IconVariant_swapped(icon, day) ==
    IF icon.typeof = "object"
    THEN (IF day THEN icon.night ELSE icon.day)
    ELSE icon.name

IconVariant_alwaysDay(icon, day) ==
    IF icon.typeof = "object" THEN icon.day ELSE icon.name

IconVariant(icon, day) ==
    IF icon.typeof = "object"
    THEN (IF day THEN icon.day ELSE icon.night)
    ELSE icon.name

\* const weather = WEATHER_CODES[weatherCode] || WEATHER_CODES[0];
\* reading weather.icon of undefined throws a TypeError
getWeatherIcon_nofallback(code, day) ==
    IF ~HasEntry(code)
    THEN Throw("TypeError")
    ELSE Return(Str(IconVariant(WEATHER_CODES[code].icon, day)))

getWeatherIcon(code, day) ==
    LET key == IF HasEntry(code) THEN code ELSE 0
    IN  IF ~HasEntry(key)
        THEN Throw("TypeError")
        ELSE Return(Str(IconVariant(WEATHER_CODES[key].icon, day)))

\* return WEATHER_CODES[weatherCode]?.description || 'Neznano';
getWeatherDescription_fallback0(code) ==
    LET key == IF HasEntry(code) THEN code ELSE 0
    IN  Return(Str(WEATHER_CODES[key].description))

getWeatherDescription_nodefault(code) ==
    IF HasEntry(code)
    THEN Return(Str(WEATHER_CODES[code].description))
    ELSE Return(Undefined)

getWeatherDescription(code) ==
    LET description == IF HasEntry(code)
                       THEN Str(WEATHER_CODES[code].description)
                       ELSE Undefined
        falsy == description.type = "undefined" \/ description = Str("")
    IN  Return(IF falsy THEN Str("Neznano") ELSE description)

(***************************************************************************)
(* analyzeWeatherHistory                                                   *)
(***************************************************************************)
\* if (!historicalData.daily) return null;
NoDailyData_never(hd) == FALSE

NoDailyData_falsyData(hd) ==
    \/ ~hd.hasDaily
    \/ /\ Len(hd.daily.precipitation_sum) >= 1
       /\ \A i \in 1..Len(hd.daily.precipitation_sum) :
              hd.daily.precipitation_sum[i] = Num(0, 1)

NoDailyData(hd) == ~hd.hasDaily

\* weatherCodes.reduce((acc, code) => { ... }, {}): the counts per
\* description, as the entries of acc in insertion order (the keys are
\* descriptions, none of which is an integer-like key)
RECURSIVE CountInto_byCode(_, _)
CountInto_byCode(acc, codes) ==
    IF codes = <<>> THEN acc
    ELSE LET description == getWeatherDescription(Head(codes)).value.str
             seen == {i \in 1..Len(acc) : acc[i].code = Head(codes)}
             next == IF seen = {}
                     THEN Append(acc, [description |-> description, count |-> 1,
                                       code |-> Head(codes)])
                     ELSE [i \in 1..Len(acc) |->
                              IF i \in seen
                              THEN [acc[i] EXCEPT !.count = @ + 1]
                              ELSE acc[i]]
         IN  CountInto_byCode(next, Tail(codes))

RECURSIVE CountInto(_, _)
CountInto(acc, codes) ==
    IF codes = <<>> THEN acc
    ELSE LET description == getWeatherDescription(Head(codes)).value.str
             seen == {i \in 1..Len(acc) : acc[i].description = description}
             next == IF seen = {}
                     THEN Append(acc, [description |-> description, count |-> 1])
                     ELSE [i \in 1..Len(acc) |->
                              IF i \in seen
                              THEN [acc[i] EXCEPT !.count = @ + 1]
                              ELSE acc[i]]
         IN  CountInto(next, Tail(codes))

weatherTypeCounts(codes) == CountInto(<<>>, codes)

\* .sort(([,a], [,b]) => b - a): a stable sort, descending by count
RECURSIVE InsertByCount_ascending(_, _)
InsertByCount_ascending(sorted, e) ==
    IF sorted = <<>> THEN <<e>>
    ELSE IF e.count - Head(sorted).count < 0
         THEN <<e>> \o sorted
         ELSE <<Head(sorted)>> \o InsertByCount_ascending(Tail(sorted), e)

RECURSIVE InsertByCount_unstable(_, _)
InsertByCount_unstable(sorted, e) ==
    IF sorted = <<>> THEN <<e>>
    ELSE IF Head(sorted).count - e.count <= 0
         THEN <<e>> \o sorted
         ELSE <<Head(sorted)>> \o InsertByCount_unstable(Tail(sorted), e)

RECURSIVE InsertByCount(_, _)
InsertByCount(sorted, e) ==
    IF sorted = <<>> THEN <<e>>
    ELSE IF Head(sorted).count - e.count < 0
         THEN <<e>> \o sorted
         ELSE <<Head(sorted)>> \o InsertByCount(Tail(sorted), e)

RECURSIVE SortFrom(_, _)
SortFrom(sorted, entries) ==
    IF entries = <<>> THEN sorted
    ELSE SortFrom(InsertByCount(sorted, Head(entries)), Tail(entries))

SortByCountDesc(entries) == SortFrom(<<>>, entries)

\* lines 888-892; sorted[0] is undefined when there are no entries
weatherPatterns_clearFallback(sorted, codes) ==
    [mostCommonWeather |-> IF sorted # <<>> THEN sorted[1].description ELSE "Jasno",
     mostCommonWeatherDays |-> IF sorted # <<>> THEN sorted[1].count ELSE 0,
     totalDays |-> Len(codes)]

weatherPatterns_distinctTotal(sorted, codes) ==
    [mostCommonWeather |-> IF sorted # <<>> THEN sorted[1].description ELSE "Neznano",
     mostCommonWeatherDays |-> IF sorted # <<>> THEN sorted[1].count ELSE 0,
     totalDays |-> Len(sorted)]

weatherPatterns(sorted, codes) ==
    [mostCommonWeather |-> IF sorted # <<>> THEN sorted[1].description ELSE "Neznano",
     mostCommonWeatherDays |-> IF sorted # <<>> THEN sorted[1].count ELSE 0,
     totalDays |-> Len(codes)]

\* lines 847-894; destructuring an undefined daily throws a TypeError
analyzeWeatherHistory(hd) ==
    IF NoDailyData(hd) THEN Return(Null)
    ELSE IF ~hd.hasDaily THEN Throw("TypeError")
    ELSE
    LET maxTemps == hd.daily.temperature_2m_max
        minTemps == hd.daily.temperature_2m_min
        precipitation == hd.daily.precipitation_sum
        weatherCodes == hd.daily.weather_code
        hottestDay == MathMax(maxTemps)
        coldestDay == MathMin(minTemps)
        wettestDay == MathMax(precipitation)
        avgMaxTemp == Div(Sum(maxTemps), Num(Len(maxTemps), 1))
        avgMinTemp == Div(Sum(minTemps), Num(Len(minTemps), 1))
        totalPrecipitation == Sum(precipitation)
        mostCommonWeather == SortByCountDesc(weatherTypeCounts(weatherCodes))
    IN  Return([type |-> "object",
                extremes |-> [hottestDay |-> MathRound(hottestDay),
                              coldestDay |-> MathRound(coldestDay),
                              wettestDay |-> RoundOneDecimal(wettestDay)],
                averages |-> [avgMaxTemp |-> MathRound(avgMaxTemp),
                              avgMinTemp |-> MathRound(avgMinTemp),
                              totalPrecipitation |-> RoundOneDecimal(totalPrecipitation)],
                weatherPatterns |-> weatherPatterns(mostCommonWeather, weatherCodes)])

(***************************************************************************)
(* Inputs                                                                  *)
(***************************************************************************)
Codes == (MinCode .. MaxCode) \cup {FarCode}

\* temperatures in degrees: -2.5, -1.4, -0.5, 0.5, 1.6
TempVals == {Num(-25, 10), Num(-14, 10), Num(-5, 10), Num(5, 10), Num(16, 10)}
\* temperatures that lie halfway between two integers: -2.5, -0.5, 0.5
HalfVals == {Num(-25, 10), Num(-5, 10), Num(5, 10)}
\* the minima of days whose minimum is 1.1 degrees below the maximum
Cooler(maxTemps) ==
    [i \in 1..Len(maxTemps) |->
        Num(maxTemps[i].n * (10 \div maxTemps[i].d) - 11, 10)]
\* precipitation in mm: 0, 0.05, 0.24, 1.1, 1.25, 5.3
PrecipVals == {Num(0, 1), Num(5, 100), Num(24, 100), Num(11, 10), Num(125, 100), Num(53, 10)}
\* weather codes: three of the catalog, two absent from it
SeriesCodes == {0, 3, 61, -1, FarCode}

Zeros(n) == [i \in 1..n |-> Num(0, 1)]
Clear(n) == [i \in 1..n |-> 0]

Daily(codes, maxTemps, minTemps, precipitation) ==
    [hasDaily |-> TRUE,
     daily |-> [time |-> [i \in 1..Len(codes) |-> i],
                weather_code |-> codes,
                temperature_2m_max |-> maxTemps,
                temperature_2m_min |-> minTemps,
                precipitation_sum |-> precipitation]]

NoData == [hasDaily |-> FALSE]

\* the series of the documented examples
ExampleSeries ==
    {Daily(<<0, 61, 3>>,
           <<Num(10, 1), Num(25, 1), Num(18, 1)>>,
           <<Num(2, 1), Num(14, 1), Num(9, 1)>>,
           <<Num(0, 1), Num(53, 10), Num(11, 10)>>),
     Daily(<<0, 3, 0, 3>>, Zeros(4), Zeros(4), Zeros(4))}

\* the responses analyzeWeatherHistory is called with: no daily field, or
\* a series in which the temperatures, the precipitation or the weather
\* codes vary, or a documented example
HistoricalInput(hd) ==
    \/ hd = NoData
    \/ \E n \in 0..MaxDays :
           \E mx \in [1..n -> TempVals] :
               hd = Daily(Clear(n), mx, Cooler(mx), Zeros(n))
    \/ \E n \in 0..MaxDays :
           \E mx \in [1..n -> HalfVals], mn \in [1..n -> HalfVals] :
               hd = Daily(Clear(n), mx, mn, Zeros(n))
    \/ \E n \in 0..MaxDays :
           \E p \in [1..n -> PrecipVals] :
               hd = Daily(Clear(n), Zeros(n), Zeros(n), p)
    \/ \E n \in 0..MaxCodeDays :
           \E c \in [1..n -> SeriesCodes] :
               hd = Daily(c, Zeros(n), Zeros(n), Zeros(n))
    \/ hd \in ExampleSeries

(***************************************************************************)
(* The calls                                                               *)
(***************************************************************************)
Init ==
    /\ WEATHER_CODES = WeatherCodesTable
    /\ pc = "call"
    /\ ret = NotReturned
    /\ component = "weather-api"
    /\ state = <<>>
    /\ calls = <<>>
    /\ observed = <<>>
    /\ \/ /\ fn = "getWeatherDescription"
          /\ weatherCode \in Codes
          /\ isDay = TRUE
          /\ historicalData = NoData
       \/ /\ fn = "getWeatherIcon"
          /\ weatherCode \in Codes
          /\ isDay \in BOOLEAN
          /\ historicalData = NoData
       \/ /\ fn = "analyzeWeatherHistory"
          /\ weatherCode = 0
          /\ isDay = TRUE
          /\ HistoricalInput(historicalData)

GetWeatherDescription ==
    /\ pc = "call"
    /\ fn = "getWeatherDescription"
    /\ ret' = getWeatherDescription(weatherCode)
    /\ pc' = "done"
    /\ UNCHANGED <<WEATHER_CODES, fn, weatherCode, isDay, historicalData>>
    /\ UNCHANGED uiVars

GetWeatherIcon ==
    /\ pc = "call"
    /\ fn = "getWeatherIcon"
    /\ ret' = getWeatherIcon(weatherCode, isDay)
    /\ pc' = "done"
    /\ UNCHANGED <<WEATHER_CODES, fn, weatherCode, isDay, historicalData>>
    /\ UNCHANGED uiVars

AnalyzeWeatherHistory_consumesInput ==
    /\ pc = "call"
    /\ fn = "analyzeWeatherHistory"
    /\ ret' = analyzeWeatherHistory(historicalData)
    /\ pc' = "done"
    /\ historicalData' =
           IF historicalData.hasDaily
           THEN [historicalData EXCEPT !.daily.precipitation_sum = <<>>]
           ELSE historicalData
    /\ UNCHANGED <<WEATHER_CODES, fn, weatherCode, isDay>>
    /\ UNCHANGED uiVars

AnalyzeWeatherHistory ==
    /\ pc = "call"
    /\ fn = "analyzeWeatherHistory"
    /\ ret' = analyzeWeatherHistory(historicalData)
    /\ pc' = "done"
    /\ UNCHANGED <<WEATHER_CODES, fn, weatherCode, isDay, historicalData>>
    /\ UNCHANGED uiVars

\* the caller, which holds a code and a series, goes on to its next call
\* of one of the three functions (the history view calls all three on each
\* render)
CallAgain ==
    /\ pc = "done"
    /\ fn' \in {"getWeatherDescription", "getWeatherIcon", "analyzeWeatherHistory"}
    /\ pc' = "call"
    /\ ret' = NotReturned
    /\ UNCHANGED <<WEATHER_CODES, weatherCode, isDay, historicalData>>
    /\ UNCHANGED uiVars

Next ==
    \/ GetWeatherDescription
    \/ GetWeatherIcon
    \/ AnalyzeWeatherHistory
    \/ CallAgain

Spec == Init /\ [][Next]_vars

(***************************************************************************)
(* Properties                                                              *)
(***************************************************************************)
Done(f) == pc = "done" /\ fn = f
InCatalog(code) == code \in DOMAIN WeatherCodesTable
Days(hd) == Len(hd.daily.weather_code)
Summary == ret.value

\* x is the largest (smallest) element of xs
IsMaxOf(x, xs) == (\E i \in 1..Len(xs) : xs[i] = x) /\ (\A i \in 1..Len(xs) : Leq(xs[i], x))
IsMinOf(x, xs) == (\E i \in 1..Len(xs) : xs[i] = x) /\ (\A i \in 1..Len(xs) : Leq(x, xs[i]))
\* r is an integer at distance at most 1/2 from the finite number x
NearestInteger(r, x) == IsFinite(r) /\ r.d = 1 /\ 2 * Abs(r.n * x.d - x.n) <= x.d
\* r = k/10 for the integer k = floor(10 x + 1/2)
HalfUpTenth(r, x) ==
    /\ IsFinite(r)
    /\ (10 * r.n) % r.d = 0
    /\ LET k == (10 * r.n) \div r.d
       IN  2 * k * x.d <= 20 * x.n + x.d /\ 20 * x.n + x.d < 2 * (k + 1) * x.d

\* C1: getWeatherDescription returns the catalog entry's description for a
\* code of the catalog, and the label 'Neznano' (which is not the description
\* of code 0) for every other code.
C1_DescriptionOrUnknown ==
    Done("getWeatherDescription") =>
        /\ InCatalog(weatherCode) =>
               ret = Return(Str(WeatherCodesTable[weatherCode].description))
        /\ ~InCatalog(weatherCode) =>
               /\ ret = Return(Str("Neznano"))
               /\ ret # Return(Str(WeatherCodesTable[0].description))

C1_Witness ==
    /\ Done("getWeatherDescription")
    /\ weatherCode = FarCode
    /\ ~InCatalog(weatherCode)
    /\ ret = Return(Str("Neznano"))

\* C2: for a code absent from the catalog, getWeatherIcon returns the icon
\* of the code-0 entry for the same isDay.
C2_IconFallsBackToCodeZero ==
    Done("getWeatherIcon") /\ ~InCatalog(weatherCode) =>
        ret = Return(Str(IF isDay THEN WeatherCodesTable[0].icon.day
                                  ELSE WeatherCodesTable[0].icon.night))

C2_Witness ==
    /\ Done("getWeatherIcon")
    /\ weatherCode = FarCode
    /\ ~InCatalog(weatherCode)
    /\ ~isDay
    /\ ret = Return(Str("clear-night"))

\* C3: for a catalog entry with a single icon name getWeatherIcon returns
\* that name whatever isDay is; for an entry with a day/night pair it returns
\* the day variant when isDay and the night variant otherwise.
C3_IconSelection ==
    Done("getWeatherIcon") /\ InCatalog(weatherCode) =>
        LET icon == WeatherCodesTable[weatherCode].icon
        IN  /\ icon.typeof = "string" => ret = Return(Str(icon.name))
            /\ icon.typeof = "object" =>
                   ret = Return(Str(IF isDay THEN icon.day ELSE icon.night))

C3_Witness ==
    /\ Done("getWeatherIcon")
    /\ weatherCode = 3
    /\ ~isDay
    /\ ret = Return(Str("cloudy-3-night"))

\* C4: for every code of MinCode..MaxCode and both values of isDay,
\* getWeatherDescription and getWeatherIcon return a non-empty string and do
\* not throw.
C4_CatalogTotal ==
    (Done("getWeatherDescription") \/ Done("getWeatherIcon")) =>
        /\ ret.completion = "return"
        /\ ret.value.type = "string"
        /\ ret.value.str # ""

C4_Witness ==
    /\ Done("getWeatherDescription")
    /\ weatherCode = MinCode
    /\ ret.completion = "return"
    /\ ret.value = Str("Neznano")

\* C5: for a catalog code with a day/night pair the icon for isDay differs
\* from the icon for the opposite isDay; for a catalog code with a single
\* icon the two are equal.
C5_DayNightDiffer ==
    Done("getWeatherIcon") /\ InCatalog(weatherCode) =>
        LET icon == WeatherCodesTable[weatherCode].icon
            other == getWeatherIcon(weatherCode, ~isDay)
        IN  /\ icon.typeof = "object" => ret # other
            /\ icon.typeof = "string" => ret = other

C5_Witness ==
    /\ Done("getWeatherIcon")
    /\ weatherCode = 0
    /\ isDay
    /\ ret = Return(Str("clear-day"))
    /\ getWeatherIcon(0, FALSE) = Return(Str("clear-night"))

\* C6: analyzeWeatherHistory returns null, and does not throw, when the
\* response has no daily field.
C6_NoDailyReturnsNull ==
    Done("analyzeWeatherHistory") /\ ~historicalData.hasDaily => ret = Return(Null)

C6_Witness ==
    /\ Done("analyzeWeatherHistory")
    /\ historicalData = NoData
    /\ ret = Return(Null)

\* C7: analyzeWeatherHistory returns null for a daily object that is present
\* and whose arrays are all empty.
C7_EmptySeriesReturnsNull ==
    (/\ Done("analyzeWeatherHistory")
     /\ historicalData.hasDaily
     /\ historicalData.daily.time = <<>>
     /\ historicalData.daily.weather_code = <<>>
     /\ historicalData.daily.temperature_2m_max = <<>>
     /\ historicalData.daily.temperature_2m_min = <<>>
     /\ historicalData.daily.precipitation_sum = <<>>)
    => ret = Return(Null)

\* C8: for a series of zero days the summary has mostCommonWeather
\* 'Neznano' and mostCommonWeatherDays 0.
C8_ZeroDaysUnknownPattern ==
    Done("analyzeWeatherHistory") /\ historicalData.hasDaily /\ Days(historicalData) = 0 =>
        /\ ret.completion = "return"
        /\ Summary.type = "object"
        /\ Summary.weatherPatterns.mostCommonWeather = "Neznano"
        /\ Summary.weatherPatterns.mostCommonWeatherDays = 0

C8_Witness ==
    /\ Done("analyzeWeatherHistory")
    /\ historicalData = Daily(<<>>, <<>>, <<>>, <<>>)
    /\ ret.completion = "return"
    /\ Summary.type = "object"
    /\ Summary.weatherPatterns.mostCommonWeather = "Neznano"

\* C9: for a series of at least one day, hottestDay is an integer nearest to
\* the largest element of temperature_2m_max and coldestDay an integer
\* nearest to the smallest element of temperature_2m_min.
C9_TemperatureExtremes ==
    Done("analyzeWeatherHistory") /\ historicalData.hasDaily /\ Days(historicalData) >= 1 =>
        /\ ret.completion = "return"
        /\ Summary.type = "object"
        /\ \E x \in {historicalData.daily.temperature_2m_max[i] : i \in 1..Days(historicalData)} :
               /\ IsMaxOf(x, historicalData.daily.temperature_2m_max)
               /\ NearestInteger(Summary.extremes.hottestDay, x)
        /\ \E x \in {historicalData.daily.temperature_2m_min[i] : i \in 1..Days(historicalData)} :
               /\ IsMinOf(x, historicalData.daily.temperature_2m_min)
               /\ NearestInteger(Summary.extremes.coldestDay, x)

C9_Witness ==
    /\ Done("analyzeWeatherHistory")
    /\ historicalData.hasDaily
    /\ historicalData.daily.temperature_2m_max = <<Num(10, 1), Num(25, 1), Num(18, 1)>>
    /\ historicalData.daily.temperature_2m_min = <<Num(2, 1), Num(14, 1), Num(9, 1)>>
    /\ ret.completion = "return"
    /\ Summary.extremes.hottestDay = Num(25, 1)
    /\ Summary.extremes.coldestDay = Num(2, 1)

\* C10: for a series of at least one day, wettestDay is the largest element
\* of precipitation_sum multiplied by 10, rounded to the integer
\* floor(x + 1/2), and divided by 10.
C10_WettestDay ==
    Done("analyzeWeatherHistory") /\ historicalData.hasDaily /\ Days(historicalData) >= 1 =>
        /\ ret.completion = "return"
        /\ Summary.type = "object"
        /\ \E x \in {historicalData.daily.precipitation_sum[i] : i \in 1..Days(historicalData)} :
               /\ IsMaxOf(x, historicalData.daily.precipitation_sum)
               /\ HalfUpTenth(Summary.extremes.wettestDay, x)

C10_Witness ==
    /\ Done("analyzeWeatherHistory")
    /\ historicalData.hasDaily
    /\ historicalData.daily.precipitation_sum = <<Num(24, 100), Num(125, 100), Num(11, 10)>>
    /\ ret.completion = "return"
    /\ Summary.extremes.wettestDay = Num(13, 10)

\* the exact sum of decimal numbers of at most two decimals, in hundredths
RECURSIVE ExactSum100(_)
ExactSum100(xs) ==
    IF xs = <<>> THEN 0
    ELSE Head(xs).n * (100 \div Head(xs).d) + ExactSum100(Tail(xs))
\* the exact sum and the exact mean of xs as fractions
ExactSum(xs) == Num(ExactSum100(xs), 100)
ExactMean(xs) == Num(ExactSum100(xs), 100 * Len(xs))
\* r = k/10 for an integer k at distance at most 1/2 from 10 x
NearestTenth(r, x) ==
    /\ IsFinite(r)
    /\ (10 * r.n) % r.d = 0
    /\ 2 * Abs(((10 * r.n) \div r.d) * x.d - 10 * x.n) <= x.d

\* C11: for a series of N >= 1 days, avgMaxTemp is an integer nearest to
\* sum(temperature_2m_max)/N and avgMinTemp an integer nearest to
\* sum(temperature_2m_min)/N, N being the length of the respective array.
C11_AverageTemperatures ==
    Done("analyzeWeatherHistory") /\ historicalData.hasDaily /\ Days(historicalData) >= 1 =>
        /\ ret.completion = "return"
        /\ Summary.type = "object"
        /\ NearestInteger(Summary.averages.avgMaxTemp,
                          ExactMean(historicalData.daily.temperature_2m_max))
        /\ NearestInteger(Summary.averages.avgMinTemp,
                          ExactMean(historicalData.daily.temperature_2m_min))

C11_Witness ==
    /\ Done("analyzeWeatherHistory")
    /\ historicalData.hasDaily
    /\ historicalData.daily.temperature_2m_max = <<Num(10, 1), Num(25, 1), Num(18, 1)>>
    /\ ret.completion = "return"
    /\ Summary.averages.avgMaxTemp = Num(18, 1)
    /\ Summary.averages.avgMinTemp = Num(8, 1)

\* C12: for every series, totalPrecipitation is a multiple of 0.1 nearest to
\* the sum of all precipitation_sum entries.
C12_TotalPrecipitation ==
    Done("analyzeWeatherHistory") /\ historicalData.hasDaily =>
        /\ ret.completion = "return"
        /\ Summary.type = "object"
        /\ NearestTenth(Summary.averages.totalPrecipitation,
                        ExactSum(historicalData.daily.precipitation_sum))

C12_Witness ==
    /\ Done("analyzeWeatherHistory")
    /\ historicalData.hasDaily
    /\ historicalData.daily.precipitation_sum = <<Num(0, 1), Num(53, 10), Num(11, 10)>>
    /\ ret.completion = "return"
    /\ Summary.averages.totalPrecipitation = Num(64, 10)

\* the description of a code according to the table, the number of days
\* with description d, and the index of the first day with description d
DescOf(code) ==
    IF InCatalog(code) THEN WeatherCodesTable[code].description ELSE "Neznano"
Occurrences(d, codes) == Cardinality({i \in 1..Len(codes) : DescOf(codes[i]) = d})
FirstIndex(d, codes) ==
    CHOOSE i \in 1..Len(codes) :
        DescOf(codes[i]) = d /\ \A j \in 1..(i - 1) : DescOf(codes[j]) # d
Patterns == Summary.weatherPatterns
SeriesCodesOf(hd) == hd.daily.weather_code

\* C13: for a series of at least one day, mostCommonWeather is the
\* description of some day, mostCommonWeatherDays is the number of days with
\* that description, and no description occurs on more days.
C13_MostCommonIsMaximal ==
    Done("analyzeWeatherHistory") /\ historicalData.hasDaily /\ Days(historicalData) >= 1 =>
        LET codes == SeriesCodesOf(historicalData)
        IN  /\ ret.completion = "return"
            /\ Summary.type = "object"
            /\ \E i \in 1..Len(codes) : Patterns.mostCommonWeather = DescOf(codes[i])
            /\ Patterns.mostCommonWeatherDays = Occurrences(Patterns.mostCommonWeather, codes)
            /\ \A i \in 1..Len(codes) :
                   Occurrences(DescOf(codes[i]), codes) <= Patterns.mostCommonWeatherDays

C13_Witness ==
    /\ Done("analyzeWeatherHistory")
    /\ historicalData.hasDaily
    /\ SeriesCodesOf(historicalData) = <<3, 0, 0>>
    /\ ret.completion = "return"
    /\ Patterns.mostCommonWeather = "Jasno"
    /\ Patterns.mostCommonWeatherDays = 2

\* C14: among the descriptions that occur on the largest number of days,
\* mostCommonWeather is the one whose first day has the smallest index.
C14_TieBreakFirstEncountered ==
    Done("analyzeWeatherHistory") /\ historicalData.hasDaily /\ Days(historicalData) >= 1 =>
        LET codes == SeriesCodesOf(historicalData)
            top == {d \in {DescOf(codes[i]) : i \in 1..Len(codes)} :
                       \A j \in 1..Len(codes) :
                           Occurrences(DescOf(codes[j]), codes) <= Occurrences(d, codes)}
        IN  /\ ret.completion = "return"
            /\ Patterns.mostCommonWeather \in top
            /\ \A d \in top :
                   FirstIndex(Patterns.mostCommonWeather, codes) <= FirstIndex(d, codes)

C14_Witness ==
    /\ Done("analyzeWeatherHistory")
    /\ historicalData.hasDaily
    /\ SeriesCodesOf(historicalData) = <<0, 3, 0, 3>>
    /\ ret.completion = "return"
    /\ Patterns.mostCommonWeather = "Jasno"
    /\ Patterns.mostCommonWeatherDays = 2

RECURSIVE TotalCount(_)
TotalCount(entries) ==
    IF entries = <<>> THEN 0 ELSE Head(entries).count + TotalCount(Tail(entries))

\* C15: the counts are kept per description: no two buckets have the same
\* description, each bucket counts the days with its description whatever
\* their codes, the counts add up to the number of days, and when every
\* code is absent from the catalog all days fall into the bucket 'Neznano'.
C15_BucketsByDescription ==
    Done("analyzeWeatherHistory") /\ historicalData.hasDaily =>
        LET codes == SeriesCodesOf(historicalData)
            counts == weatherTypeCounts(codes)
        IN  /\ \A i, j \in 1..Len(counts) :
                   counts[i].description = counts[j].description => i = j
            /\ \A i \in 1..Len(counts) :
                   counts[i].count = Occurrences(counts[i].description, codes)
            /\ TotalCount(counts) = Len(codes)
            /\ (Len(codes) >= 1 /\ \A i \in 1..Len(codes) : ~InCatalog(codes[i])) =>
                   /\ ret.completion = "return"
                   /\ Patterns.mostCommonWeather = "Neznano"
                   /\ Patterns.mostCommonWeatherDays = Len(codes)

C15_Witness ==
    /\ Done("analyzeWeatherHistory")
    /\ historicalData.hasDaily
    /\ SeriesCodesOf(historicalData) = <<-1, FarCode, 0>>
    /\ Len(weatherTypeCounts(SeriesCodesOf(historicalData))) = 2
    /\ ret.completion = "return"
    /\ Patterns.mostCommonWeather = "Neznano"
    /\ Patterns.mostCommonWeatherDays = 2

\* C16: whenever a summary is returned, totalDays is the number of entries
\* of weather_code and mostCommonWeatherDays is at most totalDays.
C16_TotalDays ==
    Done("analyzeWeatherHistory") /\ ret.completion = "return" /\ Summary.type = "object" =>
        /\ Patterns.totalDays = Len(SeriesCodesOf(historicalData))
        /\ Patterns.mostCommonWeatherDays <= Patterns.totalDays

C16_Witness ==
    /\ Done("analyzeWeatherHistory")
    /\ historicalData.hasDaily
    /\ SeriesCodesOf(historicalData) = <<0, 0, 3>>
    /\ ret.completion = "return"
    /\ Patterns.totalDays = 3
    /\ Patterns.mostCommonWeatherDays = 2

\* x lies exactly halfway between two integers
IsHalf(x) == IsFinite(x) /\ x.d = 2
\* of the two integers next to the half x: the one farther from zero, and
\* the larger one
AwayFromZero(r, x) ==
    IsFinite(r) /\ r.d = 1 /\ 2 * r.n = (IF x.n > 0 THEN x.n + 1 ELSE x.n - 1)
TowardPositive(r, x) == IsFinite(r) /\ r.d = 1 /\ 2 * r.n = x.n + 1
\* every element of xs is a multiple of 1/2, so that sums of xs are exact
AllHalves(xs) == \A i \in 1..Len(xs) : xs[i].d \in {1, 2}
MaxReading(xs) == CHOOSE x \in {xs[i] : i \in 1..Len(xs)} : IsMaxOf(x, xs)
MinReading(xs) == CHOOSE x \in {xs[i] : i \in 1..Len(xs)} : IsMinOf(x, xs)

\* C17 as stated: a temperature value exactly halfway between two integers
\* (the largest maximum, the smallest minimum, the mean of the maxima, the
\* mean of the minima) is rounded to the integer farther from zero.
C17_HalfAwayFromZero ==
    Done("analyzeWeatherHistory") /\ historicalData.hasDaily /\ Days(historicalData) >= 1 =>
        LET maxTemps == historicalData.daily.temperature_2m_max
            minTemps == historicalData.daily.temperature_2m_min
        IN  /\ IsHalf(MaxReading(maxTemps)) =>
                   AwayFromZero(Summary.extremes.hottestDay, MaxReading(maxTemps))
            /\ IsHalf(MinReading(minTemps)) =>
                   AwayFromZero(Summary.extremes.coldestDay, MinReading(minTemps))
            /\ IsHalf(ExactMean(maxTemps)) /\ AllHalves(maxTemps) =>
                   AwayFromZero(Summary.averages.avgMaxTemp, ExactMean(maxTemps))
            /\ IsHalf(ExactMean(minTemps)) /\ AllHalves(minTemps) =>
                   AwayFromZero(Summary.averages.avgMinTemp, ExactMean(minTemps))

\* C17, amended: a temperature value exactly halfway between two integers
\* is rounded to the larger of the two (k.5 to k+1, -k.5 to -k); for the
\* means this is stated where all readings are multiples of 1/2.
C17_HalfTowardPositive ==
    Done("analyzeWeatherHistory") /\ historicalData.hasDaily /\ Days(historicalData) >= 1 =>
        LET maxTemps == historicalData.daily.temperature_2m_max
            minTemps == historicalData.daily.temperature_2m_min
        IN  /\ ret.completion = "return"
            /\ IsHalf(MaxReading(maxTemps)) =>
                   TowardPositive(Summary.extremes.hottestDay, MaxReading(maxTemps))
            /\ IsHalf(MinReading(minTemps)) =>
                   TowardPositive(Summary.extremes.coldestDay, MinReading(minTemps))
            /\ IsHalf(ExactMean(maxTemps)) /\ AllHalves(maxTemps) =>
                   TowardPositive(Summary.averages.avgMaxTemp, ExactMean(maxTemps))
            /\ IsHalf(ExactMean(minTemps)) /\ AllHalves(minTemps) =>
                   TowardPositive(Summary.averages.avgMinTemp, ExactMean(minTemps))

C17_Witness ==
    /\ Done("analyzeWeatherHistory")
    /\ historicalData.hasDaily
    /\ historicalData.daily.temperature_2m_max = <<Num(-25, 10), Num(-5, 10)>>
    /\ historicalData.daily.temperature_2m_min = <<Num(-25, 10), Num(-5, 10)>>
    /\ ret.completion = "return"
    /\ Summary.extremes.hottestDay = Num(0, 1)
    /\ Summary.extremes.coldestDay = Num(-2, 1)
    /\ Summary.averages.avgMaxTemp = Num(-1, 1)

\* the exact value x, in hundredths, is of the form x.x5
OnHalfTenth(h) == h % 10 = 5
Hundredths(x) == x.n * (100 \div x.d)

\* C18: when the exact sum of precipitation_sum is of the form x.x5,
\* totalPrecipitation is the next tenth above it, and when the largest
\* element is of the form x.x5, wettestDay is the next tenth above it.
C18_HalfTenthRoundsUp ==
    Done("analyzeWeatherHistory") /\ historicalData.hasDaily /\ Days(historicalData) >= 1 =>
        LET precipitation == historicalData.daily.precipitation_sum
            total == ExactSum100(precipitation)
            largest == Hundredths(MaxReading(precipitation))
        IN  /\ OnHalfTenth(total) =>
                   Summary.averages.totalPrecipitation = Num(total + 5, 100)
            /\ OnHalfTenth(largest) =>
                   Summary.extremes.wettestDay = Num(largest + 5, 100)

\* C19: for a series of at least one day, all-zero arrays and codes outside
\* the catalog included, analyzeWeatherHistory throws nothing and returns a
\* summary object; it returns null only for input without any day.
C19_NoExceptionNonNull ==
    Done("analyzeWeatherHistory") =>
        /\ ret.completion # "throw"
        /\ historicalData.hasDaily /\ Days(historicalData) >= 1 =>
               ret.completion = "return" /\ Summary.type = "object"
        /\ ret = Return(Null) =>
               ~(historicalData.hasDaily /\ Days(historicalData) >= 1)

C19_Witness ==
    /\ Done("analyzeWeatherHistory")
    /\ historicalData = Daily(<<-1, FarCode>>, Zeros(2), Zeros(2), Zeros(2))
    /\ ret.completion = "return"
    /\ Summary.type = "object"
    /\ Summary.extremes.wettestDay = Num(0, 1)
    /\ Patterns.totalDays = 2

\* C20: no step of any sequence of calls changes the catalog, which keeps
\* its initial content, or the series passed to analyzeWeatherHistory.
C20_NoSharedMutableState ==
    [][/\ WEATHER_CODES' = WEATHER_CODES
       /\ WEATHER_CODES' = WeatherCodesTable
       /\ historicalData' = historicalData]_vars

C20_Witness ==
    /\ Done("getWeatherIcon")
    /\ weatherCode = 0
    /\ historicalData = Daily(<<0, 61, 3>>,
                              <<Num(10, 1), Num(25, 1), Num(18, 1)>>,
                              <<Num(2, 1), Num(14, 1), Num(9, 1)>>,
                              <<Num(0, 1), Num(53, 10), Num(11, 10)>>)
    /\ WEATHER_CODES = WeatherCodesTable
    /\ ret = Return(Str("clear-day"))

(***************************************************************************)
(* GeolocationService.getCurrentPosition (geolocation.ts, lines 56-99)     *)
(*                                                                         *)
(* A behaviour of GeoSpec is one call: the executor of the promise runs,   *)
(* then the device invokes one of the two callbacks.  state.promise is the *)
(* returned promise, calls holds the query the device has not answered.    *)
(***************************************************************************)
\* the codes of GeolocationPositionError
PERMISSION_DENIED == 1
POSITION_UNAVAILABLE == 2
TIMEOUT == 3
\* the codes a device is taken to report: the three above, and two others
DeviceErrorCodes == {0, PERMISSION_DENIED, POSITION_UNAVAILABLE, TIMEOUT, 5}
\* coordinates in whole degrees and accuracies in metres
Latitudes == {-34, 0, 45, 46, 90}
Longitudes == {-74, 0, 13, 14, 180}
Accuracies == {1, 20, 65, 1000}

Pending == [status |-> "pending"]
Fulfilled(v) == [status |-> "fulfilled", value |-> v]
Rejected(e) == [status |-> "rejected", reason |-> e]

\* resolve and reject of a promise: a settled promise stays as it is
Settle(promise, outcome) == IF promise = Pending THEN outcome ELSE promise

GeolocationError(code, message) == [code |-> code, message |-> message]

\* lines 75-86: the switch on error.code
ErrorMessage_noDefault(code) ==
    IF code = PERMISSION_DENIED THEN "Location access denied by user"
    ELSE IF code = POSITION_UNAVAILABLE THEN "Location information is unavailable"
    ELSE "Location request timed out"

ErrorMessage(code) ==
    IF code = PERMISSION_DENIED THEN "Location access denied by user"
    ELSE IF code = POSITION_UNAVAILABLE THEN "Location information is unavailable"
    ELSE IF code = TIMEOUT THEN "Location request timed out"
    ELSE "An unknown error occurred"

\* lines 59-62: the rejection when the browser has no geolocation API
NotSupported == GeolocationError(4, "Geolocation is not supported by this browser")

\* lines 68-72 and 87-90: what the two callbacks settle the promise with
PositionOf(coords) ==
    [latitude |-> coords.latitude, longitude |-> coords.longitude,
     accuracy |-> coords.accuracy]
RejectionOf(code) == GeolocationError(code, ErrorMessage(code))

LibIdle ==
    /\ WEATHER_CODES = WeatherCodesTable
    /\ fn = "none"
    /\ weatherCode = 0
    /\ isDay = TRUE
    /\ historicalData = NoData
    /\ pc = "done"
    /\ ret = NotReturned

DeviceQuery == [awaiting |-> "navigator.geolocation.getCurrentPosition"]

GeoInit ==
    /\ LibIdle
    /\ component = "GeolocationService"
    /\ state \in {[geolocation |-> g, promise |-> Pending, called |-> FALSE] :
                     g \in BOOLEAN}
    /\ calls = <<>>
    /\ observed = [settled |-> 0, queried |-> FALSE, answer |-> Null]

\* lines 57-66 and 92-97: the executor
GetCurrentPosition ==
    /\ component = "GeolocationService"
    /\ ~state.called
    /\ IF ~state.geolocation
       THEN /\ state' = [state EXCEPT !.called = TRUE,
                                      !.promise = Settle(@, Rejected(NotSupported))]
            /\ calls' = calls
            /\ observed' = [observed EXCEPT !.settled = @ + 1]
       ELSE /\ state' = [state EXCEPT !.called = TRUE]
            /\ calls' = Append(calls, DeviceQuery)
            /\ observed' = [observed EXCEPT !.queried = TRUE]
    /\ UNCHANGED <<component, libVars>>

\* lines 67-73: the success callback
PositionSuccess ==
    /\ component = "GeolocationService"
    /\ calls # <<>>
    /\ \E lat \in Latitudes, lon \in Longitudes, acc \in Accuracies :
           LET coords == [latitude |-> lat, longitude |-> lon, accuracy |-> acc]
           IN  /\ state' = [state EXCEPT
                               !.promise = Settle(@, Fulfilled(PositionOf(coords)))]
               /\ observed' = [observed EXCEPT
                      !.answer = [coords |-> coords],
                      !.settled = IF state'.promise # state.promise THEN @ + 1 ELSE @]
    /\ calls' = Tail(calls)
    /\ UNCHANGED <<component, libVars>>

\* lines 74-91: the error callback
PositionError ==
    /\ component = "GeolocationService"
    /\ calls # <<>>
    /\ \E code \in DeviceErrorCodes :
           /\ state' = [state EXCEPT
                           !.promise = Settle(@, Rejected(RejectionOf(code)))]
           /\ observed' = [observed EXCEPT
                  !.answer = [code |-> code],
                  !.settled = IF state'.promise # state.promise THEN @ + 1 ELSE @]
    /\ calls' = Tail(calls)
    /\ UNCHANGED <<component, libVars>>

GeoNext ==
    \/ GetCurrentPosition
    \/ PositionSuccess
    \/ PositionError

GeoSpec == GeoInit /\ [][GeoNext]_vars

\* C22: the promise of getCurrentPosition is settled at most once, and once
\* when the call is over.  Without a geolocation API it is rejected with
\* code 4 and the 'not supported' message and the device is not queried;
\* on a device error it is rejected with the device's code and the message
\* of that code; on success it is fulfilled with the latitude, longitude
\* and accuracy the device reported.
C22_GetCurrentPositionSettles ==
    component = "GeolocationService" =>
        /\ observed.settled <= 1
        /\ (state.promise = Pending) = (observed.settled = 0)
        /\ state.called /\ calls = <<>> => observed.settled = 1
        /\ state.called /\ ~state.geolocation =>
               /\ state.promise = Rejected([code |-> 4,
                      message |-> "Geolocation is not supported by this browser"])
               /\ ~observed.queried
        /\ observed.answer # Null /\ "code" \in DOMAIN observed.answer =>
               LET code == observed.answer.code
               IN  /\ state.promise.status = "rejected"
                   /\ state.promise.reason.code = code
                   /\ code = 1 => state.promise.reason.message = "Location access denied by user"
                   /\ code = 2 => state.promise.reason.message = "Location information is unavailable"
                   /\ code = 3 => state.promise.reason.message = "Location request timed out"
                   /\ code \notin {1, 2, 3} =>
                          state.promise.reason.message = "An unknown error occurred"
        /\ observed.answer # Null /\ "coords" \in DOMAIN observed.answer =>
               state.promise = Fulfilled([latitude |-> observed.answer.coords.latitude,
                                          longitude |-> observed.answer.coords.longitude,
                                          accuracy |-> observed.answer.coords.accuracy])

C22_Witness ==
    /\ component = "GeolocationService"
    /\ state.called
    /\ calls = <<>>
    /\ observed.answer = [code |-> 5]
    /\ state.promise = Rejected([code |-> 5, message |-> "An unknown error occurred"])

(***************************************************************************)
(* The pages: Home (part_001), SearchPage (app/search/page.tsx) and        *)
(* HistoryPage (part_002, lines 10-172)                                    *)
(*                                                                         *)
(* state holds the useState fields of the page.  An async function runs    *)
(* until its first await within the action that starts it; it is then an   *)
(* element of calls, and each settlement of the promise it awaits is an    *)
(* action that runs it until its next await or its end.  A handler reads   *)
(* the fields of the latest render.                                        *)
(***************************************************************************)
\* the largest number of async calls in flight at a time
MaxPending == 2

\* the period buttons of the history page and the initial selectedDays
DayChoices == {7, 14, 21, 30}
DefaultDays == 14

\* the results of CitySearch the user selects: one with and one without
\* admin1 (the optional strings are JS values)
Cities ==
    {[name |-> "Ljubljana", latitude |-> 46, longitude |-> 14,
      country |-> Str("Slovenia"), admin1 |-> Str("Ljubljana")],
     [name |-> "Maribor", latitude |-> 47, longitude |-> 16,
      country |-> Str("Slovenia"), admin1 |-> Undefined]}

\* the positions the device reports to a page: one on the coast, one on
\* the equator (latitude 0)
DevicePositions ==
    {PositionOf([latitude |-> 45, longitude |-> 13, accuracy |-> 20]),
     PositionOf([latitude |-> 0, longitude |-> 13, accuracy |-> 20])}
\* the rejections of getCurrentPosition a page meets
PositionRejections == {RejectionOf(PERMISSION_DENIED)}

\* the body of the reverse geocoding response for a position: with a city,
\* or without one
GeocodeData(position) ==
    {[city |-> "Koper", countryName |-> "Slovenija",
      latitude |-> position.latitude, longitude |-> position.longitude],
     [city |-> "", countryName |-> "",
      latitude |-> position.latitude, longitude |-> position.longitude]}

\* geolocation.ts, lines 203-212: the value reverseGeocode resolves with
reverseGeocode(data) ==
    IF data.city = "" THEN Null
    ELSE [name |-> data.city, country |-> Str(data.countryName),
          latitude |-> data.latitude, longitude |-> data.longitude]

\* the error a failed fetch rejects with
FetchErrors == {[message |-> "Failed to fetch"]}

\* v || '' for an optional string v
OrEmpty(v) == IF v = Undefined \/ v = Str("") THEN Str("") ELSE v

\* the object handleLocationSelect passes to setLocation
SelectedLocation(selectedLocation) ==
    [name |-> selectedLocation.name,
     latitude |-> selectedLocation.latitude,
     longitude |-> selectedLocation.longitude,
     country |-> OrEmpty(selectedLocation.country),
     admin1 |-> OrEmpty(selectedLocation.admin1)]

\* the response of the weather API to a request, which names its request
WeatherData(latitude, longitude) ==
    [latitude |-> latitude, longitude |-> longitude]
HistoryData(latitude, longitude, days) ==
    [latitude |-> latitude, longitude |-> longitude, days |-> days]

\* the request of a page and the response to the request of a call
RequestOf(page) ==
    IF page = "HistoryPage" THEN "getWeatherHistory" ELSE "getCurrentWeatherAndForecast"
ResponseTo(call) ==
    IF call.awaiting = "getWeatherHistory"
    THEN HistoryData(call.args.latitude, call.args.longitude, call.days)
    ELSE WeatherData(call.args.latitude, call.args.longitude)

\* the coordinates a request is made with
Args(latitude, longitude) == [latitude |-> latitude, longitude |-> longitude]

\* an async call suspended at an await
Call(f, awaiting, days, position, args) ==
    [fn |-> f, awaiting |-> awaiting, days |-> days, position |-> position,
     args |-> args]

Remove(cs, i) == SubSeq(cs, 1, i - 1) \o SubSeq(cs, i + 1, Len(cs))

\* a number in a condition: 0 is falsy
Truthy(number) == number # 0

\* the setters of the page
SetData(st, data) ==
    IF component = "HistoryPage"
    THEN [st EXCEPT !.weatherHistory = data]
    ELSE [st EXCEPT !.weather = data]
\* setLoading(true); setError(null)
Begin(st) == [st EXCEPT !.loading = TRUE, !.error = Null]
\* catch (err) { setError(err.message) } finally { setLoading(false) }
Catch_keepsLoading(st, err) == [st EXCEPT !.error = Str(err.message)]

Catch(st, err) == [st EXCEPT !.error = Str(err.message), !.loading = FALSE]
\* finally { setLoading(false) }
Finally(st) == [st EXCEPT !.loading = FALSE]

\* the effect of Home and HistoryPage, until its first await
EffectName == IF component = "Home" THEN "fetchLocationAndWeather"
              ELSE "fetchLocationAndHistory"
EffectCall(days) == Call(EffectName, "getCurrentPosition", days, Null, Null)

PageInit ==
    /\ LibIdle
    /\ component \in {"Home", "SearchPage", "HistoryPage"}
    /\ state = IF component = "Home"
               THEN [location |-> Null, weather |-> Null, error |-> Null, loading |-> TRUE]
               ELSE IF component = "SearchPage"
               THEN [location |-> Null, weather |-> Null, loading |-> FALSE, error |-> Null]
               ELSE [location |-> Null, weatherHistory |-> Null, loading |-> TRUE,
                     error |-> Null, selectedDays |-> DefaultDays]
    /\ calls = <<>>
    /\ observed = [mounted |-> (component = "SearchPage"), selected |-> Null,
                   changed |-> 0, failed |-> FALSE]

\* useEffect: the effect runs after the first render
Mount ==
    /\ component \in {"Home", "HistoryPage"}
    /\ ~observed.mounted
    /\ state' = Begin(state)
    /\ calls' = Append(calls, EffectCall(IF component = "HistoryPage"
                                         THEN state.selectedDays ELSE Null))
    /\ observed' = [observed EXCEPT !.mounted = TRUE]
    /\ UNCHANGED <<component, libVars>>

\* handleLocationSelect of SearchPage and of HistoryPage, called by
\* CitySearch with the result the user clicked
HandleLocationSelect ==
    /\ component \in {"SearchPage", "HistoryPage"}
    /\ observed.mounted
    /\ Len(calls) < MaxPending
    /\ \E selectedLocation \in Cities :
           /\ state' = [Begin(state) EXCEPT
                           !.location = SelectedLocation(selectedLocation)]
           /\ calls' = Append(calls,
                  Call("handleLocationSelect", RequestOf(component),
                       IF component = "HistoryPage" THEN state.selectedDays ELSE Null,
                       Null, Args(selectedLocation.latitude, selectedLocation.longitude)))
           /\ observed' = [observed EXCEPT
                              !.selected = SelectedLocation(selectedLocation),
                              !.changed = 0]
    /\ UNCHANGED <<component, libVars>>

\* handleDaysChange of HistoryPage, called by a period button (the buttons
\* are rendered when location is set); setSelectedDays makes the effect,
\* which depends on selectedDays, run again after the render
HandleDaysChange_extendsPeriod(days) ==
    /\ component = "HistoryPage"
    /\ observed.mounted
    /\ state.location # Null
    /\ IF ~Truthy(state.location.latitude) \/ ~Truthy(state.location.longitude)
       THEN UNCHANGED <<state, calls, observed>>
       ELSE /\ Len(calls) + 1 <= MaxPending
            /\ state' = [Begin(state) EXCEPT !.selectedDays = @ + days]
            /\ calls' = Append(calls,
                   Call("handleDaysChange", "getWeatherHistory", days, Null,
                        Args(state.location.latitude, state.location.longitude)))
            /\ observed' = observed
    /\ UNCHANGED <<component, libVars>>

HandleDaysChange(days) ==
    /\ component = "HistoryPage"
    /\ observed.mounted
    /\ state.location # Null
    /\ IF ~Truthy(state.location.latitude) \/ ~Truthy(state.location.longitude)
       THEN UNCHANGED <<state, calls, observed>>
       ELSE LET rerun == days # state.selectedDays
                request == Call("handleDaysChange", "getWeatherHistory", days, Null,
                                Args(state.location.latitude, state.location.longitude))
            IN  /\ Len(calls) + (IF rerun THEN 2 ELSE 1) <= MaxPending
                /\ state' = [Begin(state) EXCEPT !.selectedDays = days]
                /\ calls' = IF rerun
                            THEN calls \o <<request, EffectCall(days)>>
                            ELSE Append(calls, request)
                /\ observed' = [observed EXCEPT
                       !.changed = IF observed.selected # Null
                                      /\ (rerun \/ observed.changed # 0)
                                   THEN days ELSE @]
    /\ UNCHANGED <<component, libVars>>

Awaits(i, promise) == i \in 1..Len(calls) /\ calls[i].awaiting = promise

\* await GeolocationService.getCurrentPosition() resolves
PositionResolves ==
    \E i \in 1..Len(calls), position \in DevicePositions :
        /\ Awaits(i, "getCurrentPosition")
        /\ calls' = [calls EXCEPT ![i].awaiting = "reverseGeocode",
                                  ![i].position = position]
        /\ UNCHANGED <<state, observed, component, libVars>>

PositionRejects(err) ==
    \E i \in 1..Len(calls) :
        /\ Awaits(i, "getCurrentPosition")
        /\ state' = Catch(state, err)
        /\ calls' = Remove(calls, i)
        /\ observed' = [observed EXCEPT !.failed = TRUE]
        /\ UNCHANGED <<component, libVars>>

\* await GeocodingService.reverseGeocode(...) resolves: setLocation, then
\* the request when both coordinates are truthy
ReverseGeocodeResolves ==
    \E i \in 1..Len(calls) :
        /\ Awaits(i, "reverseGeocode")
        /\ \E data \in GeocodeData(calls[i].position) :
               LET position == calls[i].position
                   located == [state EXCEPT !.location = reverseGeocode(data)]
               IN  IF Truthy(position.latitude) /\ Truthy(position.longitude)
                   THEN /\ state' = located
                        /\ calls' = [calls EXCEPT ![i] =
                               Call(calls[i].fn, RequestOf(component), calls[i].days,
                                    position, Args(position.latitude, position.longitude))]
                   ELSE /\ state' = Finally(located)
                        /\ calls' = Remove(calls, i)
        /\ UNCHANGED <<observed, component, libVars>>

ReverseGeocodeRejects(err) ==
    \E i \in 1..Len(calls) :
        /\ Awaits(i, "reverseGeocode")
        /\ state' = Catch(state, err)
        /\ calls' = Remove(calls, i)
        /\ observed' = [observed EXCEPT !.failed = TRUE]
        /\ UNCHANGED <<component, libVars>>

\* await WeatherAPI.getCurrentWeatherAndForecast(...) or
\* WeatherAPI.getWeatherHistory(...) resolves
RequestResolves ==
    \E i \in 1..Len(calls) :
        /\ Awaits(i, RequestOf(component))
        /\ state' = Finally(SetData(state, ResponseTo(calls[i])))
        /\ calls' = Remove(calls, i)
        /\ UNCHANGED <<observed, component, libVars>>

RequestRejects(err) ==
    \E i \in 1..Len(calls) :
        /\ Awaits(i, RequestOf(component))
        /\ state' = Catch(state, err)
        /\ calls' = Remove(calls, i)
        /\ observed' = [observed EXCEPT !.failed = TRUE]
        /\ UNCHANGED <<component, libVars>>

Settles ==
    \/ PositionResolves
    \/ \E err \in PositionRejections : PositionRejects(err)
    \/ ReverseGeocodeResolves
    \/ \E err \in FetchErrors : ReverseGeocodeRejects(err)
    \/ RequestResolves
    \/ \E err \in FetchErrors : RequestRejects(err)

PageNext ==
    \/ Mount
    \/ HandleLocationSelect
    \/ \E days \in DayChoices : HandleDaysChange(days)
    \/ PositionResolves
    \/ \E err \in PositionRejections : PositionRejects(err)
    \/ ReverseGeocodeResolves
    \/ \E err \in FetchErrors : ReverseGeocodeRejects(err)
    \/ RequestResolves
    \/ \E err \in FetchErrors : RequestRejects(err)

PageSpec == PageInit /\ [][PageNext]_vars

\* the effect runs after the first render, and every request eventually
\* resolves or rejects; the user is not obliged to do anything
FairPageSpec == PageSpec /\ WF_vars(Mount) /\ WF_vars(Settles)

\* C21: on the history page selectedDays is 14 in the initial state, it is
\* always one of 7, 14, 21 and 30, and every call in flight carries a days
\* value of that set for its history request.
C21_SelectedDaysWithinChoices ==
    component = "HistoryPage" =>
        /\ state.selectedDays \in {7, 14, 21, 30}
        /\ ~observed.mounted => state.selectedDays = 14
        /\ \A i \in 1..Len(calls) : calls[i].days \in {7, 14, 21, 30}

C21_Witness ==
    /\ component = "HistoryPage"
    /\ state.selectedDays = 30
    /\ \E i \in 1..Len(calls) :
           calls[i].awaiting = "getWeatherHistory" /\ calls[i].days = 30

(***************************************************************************)
(* CitySearch (part_002, lines 288-404) and                                *)
(* GeocodingService.searchLocations (geolocation.ts, lines 135-160)        *)
(*                                                                         *)
(* A text is a sequence of characters.  state holds query, results,        *)
(* isLoading and showResults; calls holds the searches in flight;          *)
(* observed.selected is the last location passed to onLocationSelect.      *)
(***************************************************************************)
\* the texts the user brings into the input
Queries ==
    {<<>>, <<" ">>, <<"L">>, <<"M">>, <<"L", " ">>, <<" ", "M">>, <<"X">>}

\* the places the geocoding API knows, each under the text it is found by
Places ==
    {[id |-> 1, key |-> <<"L">>, name |-> "Ljubljana", latitude |-> 46, longitude |-> 14,
      country |-> Str("Slovenia"), admin1 |-> Str("Ljubljana")],
     [id |-> 2, key |-> <<"L">>, name |-> "Lendava", latitude |-> 47, longitude |-> 17,
      country |-> Str("Slovenia"), admin1 |-> Undefined],
     [id |-> 3, key |-> <<"M">>, name |-> "Maribor", latitude |-> 47, longitude |-> 16,
      country |-> Str("Slovenia"), admin1 |-> Undefined]}

\* String.prototype.trim
RECURSIVE TrimStart(_)
TrimStart(text) ==
    IF text # <<>> /\ Head(text) = " " THEN TrimStart(Tail(text)) ELSE text
RECURSIVE TrimEnd(_)
TrimEnd(text) ==
    IF text # <<>> /\ text[Len(text)] = " "
    THEN TrimEnd(SubSeq(text, 1, Len(text) - 1)) ELSE text
Trim(text) == TrimEnd(TrimStart(text))

\* searchLocations: [] for a blank query, else data.results || [] for the
\* trimmed name
searchLocations(query) ==
    IF Trim(query) = <<>> THEN {}
    ELSE {place \in Places : place.key = Trim(query)}

SearchCall(query) == [fn |-> "handleSearch", awaiting |-> "searchLocations", query |-> query]

CitySearchInit ==
    /\ LibIdle
    /\ component = "CitySearch"
    /\ state = [query |-> <<>>, results |-> {}, isLoading |-> FALSE, showResults |-> FALSE]
    /\ calls = <<>>
    /\ observed = [selected |-> Null]

\* onChange of the input: setQuery(e.target.value)
OnChange(value) ==
    /\ component = "CitySearch"
    /\ value # state.query
    /\ state' = [state EXCEPT !.query = value]
    /\ UNCHANGED <<calls, observed, component, libVars>>

\* handleSearch, until its await
HandleSearch ==
    IF Trim(state.query) = <<>>
    THEN UNCHANGED <<state, calls>>
    ELSE /\ state' = [state EXCEPT !.isLoading = TRUE]
         /\ calls' = Append(calls, SearchCall(state.query))

\* a click on the search button, which is disabled while isLoading or
\* when the query is blank
ClickSearch ==
    /\ component = "CitySearch"
    /\ ~(state.isLoading \/ Trim(state.query) = <<>>)
    /\ Len(calls) < MaxPending
    /\ HandleSearch
    /\ UNCHANGED <<observed, component, libVars>>

\* handleKeyPress with the key Enter
PressEnter ==
    /\ component = "CitySearch"
    /\ Len(calls) < MaxPending
    /\ HandleSearch
    /\ UNCHANGED <<observed, component, libVars>>

\* await GeocodingService.searchLocations(query) resolves
SearchResolves ==
    \E i \in 1..Len(calls) :
        /\ component = "CitySearch"
        /\ state' = [state EXCEPT !.results = searchLocations(calls[i].query),
                                  !.showResults = TRUE,
                                  !.isLoading = FALSE]
        /\ calls' = Remove(calls, i)
        /\ UNCHANGED <<observed, component, libVars>>

SearchRejects ==
    \E i \in 1..Len(calls) :
        /\ component = "CitySearch"
        /\ state' = [state EXCEPT !.results = {}, !.isLoading = FALSE]
        /\ calls' = Remove(calls, i)
        /\ UNCHANGED <<observed, component, libVars>>

\* a click on a row of the dropdown, which is rendered when showResults
\* and results is not empty
SelectResult ==
    /\ component = "CitySearch"
    /\ state.showResults
    /\ \E location \in state.results :
           observed' = [observed EXCEPT !.selected =
                           [latitude |-> location.latitude,
                            longitude |-> location.longitude,
                            name |-> location.name,
                            country |-> location.country,
                            admin1 |-> location.admin1]]
    /\ state' = [state EXCEPT !.query = <<>>, !.results = {}, !.showResults = FALSE]
    /\ UNCHANGED <<calls, component, libVars>>

CitySearchNext ==
    \/ \E value \in Queries : OnChange(value)
    \/ ClickSearch
    \/ PressEnter
    \/ SearchResolves
    \/ SearchRejects
    \/ SelectResult

CitySearchSpec == CitySearchInit /\ [][CitySearchNext]_vars

\* every search eventually resolves or rejects; the user is not obliged to
\* do anything
FairCitySearchSpec == CitySearchSpec /\ WF_vars(SearchResolves \/ SearchRejects)

\* the dropdown shows the suggestions for the current query
SuggestionsShown == state.showResults /\ state.results = searchLocations(state.query)

\* C23: whenever the query text is not blank, the suggestions for the
\* current query are eventually shown (or the query is blank again),
\* whether or not the user presses Enter or clicks the search button.
C23_RealTimeAutocomplete ==
    (component = "CitySearch" /\ Trim(state.query) # <<>> /\ ~SuggestionsShown)
        ~> (Trim(state.query) = <<>> \/ SuggestionsShown)

\* C24: on the history page, after the user has selected a city and then
\* changed the period to another number of days, once no call is in flight
\* and no request has failed, location is still that city and
\* weatherHistory is the response for its coordinates and the chosen days.
C24_PeriodChangeKeepsLocation ==
    (/\ component = "HistoryPage"
     /\ observed.selected # Null
     /\ observed.changed # 0
     /\ ~observed.failed
     /\ calls = <<>>) =>
        /\ state.location = observed.selected
        /\ state.weatherHistory =
               [latitude |-> observed.selected.latitude,
                longitude |-> observed.selected.longitude,
                days |-> observed.changed]

\* C25: on the search page, whenever the weather cards are displayed
\* (weather and location set, loading false), weather is the response to
\* the request for the coordinates of the displayed location.
C25_WeatherMatchesLocation ==
    (/\ component = "SearchPage"
     /\ state.weather # Null
     /\ state.location # Null
     /\ ~state.loading) =>
        state.weather = [latitude |-> state.location.latitude,
                         longitude |-> state.location.longitude]

\* C26: on the history page, loading is true whenever a call started by
\* the page (the effect, handleLocationSelect or handleDaysChange) is
\* still awaiting a request.
C26_LoadingWhilePending ==
    component = "HistoryPage" /\ calls # <<>> => state.loading

\* C27: on the home page, once the effect has run and loading is false,
\* either weather and location are both set or error is set.
C27_CardsOrError ==
    component = "Home" /\ observed.mounted /\ ~state.loading =>
        \/ state.weather # Null /\ state.location # Null
        \/ state.error # Null

\* C30: on the three pages, whenever loading is true it eventually becomes
\* false, and the step in which a request rejects sets error to the
\* message of the rejection and loading to false.
C30_LoadingEnds ==
    /\ state.loading ~> ~state.loading
    /\ [][\A err \in PositionRejections \cup FetchErrors :
              (PositionRejects(err) \/ ReverseGeocodeRejects(err) \/ RequestRejects(err))
                  => state'.error = Str(err.message) /\ ~state'.loading]_vars

C30_Witness ==
    /\ component = "HistoryPage"
    /\ observed.failed
    /\ calls = <<>>
    /\ state.error = Str("Failed to fetch")
    /\ ~state.loading

(***************************************************************************)
(* WeatherHistory (components/weather/WeatherHistory.tsx, lines 47-110)    *)
(*                                                                         *)
(* A behaviour of ViewSpec is the history page rendering the component:    *)
(* historicalData is the weatherHistory prop, state holds the days prop,   *)
(* ret is what the render computed; the page first passes its initial     *)
(* selectedDays.  A date string is the number of its                       *)
(* calendar day; the page runs in the time zone of its sl-SI locale, east  *)
(* of Greenwich, where the local date of new Date(dateStr) is that day.    *)
(***************************************************************************)
MaxSeries == 8
Seeds == {0, 3, 5}

\* Array.prototype.slice(start): a negative start counts from the end
Slice(xs, start) ==
    LET k == IF start < 0
             THEN (IF Len(xs) + start < 0 THEN 0 ELSE Len(xs) + start)
             ELSE (IF start > Len(xs) THEN Len(xs) ELSE start)
    IN  SubSeq(xs, k + 1, Len(xs))

\* Array.prototype.reverse
Reverse(xs) == [i \in 1..Len(xs) |-> xs[Len(xs) + 1 - i]]

\* new Date(dateStr).toLocaleDateString('sl-SI', format)
toLocaleDateString(dateStr, format) ==
    [locale |-> "sl-SI", format |-> format, day |-> dateStr]

\* the response of getWeatherHistory: the daily series and their units
HistoryResponse(time, codes, maxTemps, minTemps, meanTemps, precipitation, windSpeeds) ==
    [hasDaily |-> TRUE,
     daily |-> [time |-> time,
                weather_code |-> codes,
                temperature_2m_max |-> maxTemps,
                temperature_2m_min |-> minTemps,
                temperature_2m_mean |-> meanTemps,
                precipitation_sum |-> precipitation,
                wind_speed_10m_max |-> windSpeeds],
     daily_units |-> [temperature_2m_max |-> "C",
                      precipitation_sum |-> "mm",
                      wind_speed_10m_max |-> "km/h"]]

\* a response of n days ending on day 100 + n, whose readings differ from
\* day to day
SeriesOf(n, seed) ==
    HistoryResponse(
        [i \in 1..n |-> 100 + i],
        [i \in 1..n |-> <<0, 3, 61, -1, FarCode>>[((seed + i) % 5) + 1]],
        [i \in 1..n |-> Num(20 * seed + 35 * i, 10)],
        [i \in 1..n |-> Num(20 * seed + 35 * i - 65, 10)],
        [i \in 1..n |-> Num(20 * seed + 35 * i - 30, 10)],
        [i \in 1..n |-> Num(((seed + 3 * i) % 7) * 15, 100)],
        [i \in 1..n |-> Num(5 * seed + 15 * i, 10)])

ViewInput(hd) ==
    \/ hd = NoData
    \/ \E n \in 0..MaxSeries, seed \in Seeds : hd = SeriesOf(n, seed)

\* lines 68-101 with the row read at the position counted from the start
historicalDays_oldestFirst(daily, days) ==
    LET time == daily.time
        shown == Reverse(Slice(time, -days))
    IN  [row \in 1..Len(shown) |->
            LET index == row - 1
                code == daily.weather_code[index + 1]
            IN  [date |-> toLocaleDateString(shown[row], "short"),
                 fullDate |-> toLocaleDateString(shown[row], "long"),
                 maxTemp |-> MathRound(daily.temperature_2m_max[index + 1]),
                 minTemp |-> MathRound(daily.temperature_2m_min[index + 1]),
                 meanTemp |-> MathRound(daily.temperature_2m_mean[index + 1]),
                 weatherCode |-> code,
                 icon |-> getWeatherIcon(code, TRUE),
                 precip |-> RoundOneDecimal(daily.precipitation_sum[index + 1]),
                 windSpeed |-> MathRound(daily.wind_speed_10m_max[index + 1]),
                 description |-> getWeatherDescription(code)]]

\* lines 68-101: time.slice(-days).reverse().map((dateStr, index) => ...)
historicalDays(daily, days) ==
    LET time == daily.time
        shown == Reverse(Slice(time, -days))
    IN  [row \in 1..Len(shown) |->
            LET index == row - 1
                reversedIndex == Len(time) - 1 - index
                code == daily.weather_code[reversedIndex + 1]
            IN  [date |-> toLocaleDateString(shown[row], "short"),
                 fullDate |-> toLocaleDateString(shown[row], "long"),
                 maxTemp |-> MathRound(daily.temperature_2m_max[reversedIndex + 1]),
                 minTemp |-> MathRound(daily.temperature_2m_min[reversedIndex + 1]),
                 meanTemp |-> MathRound(daily.temperature_2m_mean[reversedIndex + 1]),
                 weatherCode |-> code,
                 icon |-> getWeatherIcon(code, TRUE),
                 precip |-> RoundOneDecimal(daily.precipitation_sum[reversedIndex + 1]),
                 windSpeed |-> MathRound(daily.wind_speed_10m_max[reversedIndex + 1]),
                 description |-> getWeatherDescription(code)]]

\* lines 104-107: the averages and the total of the summary card
PeriodAverage(xs, days) == MathRound(Div(Sum(Slice(xs, -days)), Num(days, 1)))
PeriodTotal(xs, days) == RoundOneDecimal(Sum(Slice(xs, -days)))

\* lines 47-110 and the title of line 117
WeatherHistory(weatherHistory, days) ==
    IF ~weatherHistory.hasDaily THEN Return(Null)
    ELSE LET daily == weatherHistory.daily
         IN  Return([type |-> "element",
                     historicalDays |-> historicalDays(daily, days),
                     units |-> weatherHistory.daily_units,
                     summary |-> [days |-> days,
                                  avgMaxTemp |-> PeriodAverage(daily.temperature_2m_max, days),
                                  avgMinTemp |-> PeriodAverage(daily.temperature_2m_min, days),
                                  avgMeanTemp |-> PeriodAverage(daily.temperature_2m_mean, days),
                                  totalPrecip |-> PeriodTotal(daily.precipitation_sum, days)],
                     analysis |-> analyzeWeatherHistory(weatherHistory)])

ViewInit ==
    /\ WEATHER_CODES = WeatherCodesTable
    /\ fn = "WeatherHistory"
    /\ weatherCode = 0
    /\ isDay = TRUE
    /\ ViewInput(historicalData)
    /\ pc = "call"
    /\ ret = NotReturned
    /\ component = "WeatherHistory"
    /\ state = [days |-> DefaultDays]
    /\ calls = <<>>
    /\ observed = <<>>

\* the component renders
RenderWeatherHistory ==
    /\ component = "WeatherHistory"
    /\ pc = "call"
    /\ ret' = WeatherHistory(historicalData, state.days)
    /\ pc' = "done"
    /\ UNCHANGED <<WEATHER_CODES, fn, weatherCode, isDay, historicalData, uiVars>>

\* the page passes another selectedDays as the days prop
RenderAgain(days) ==
    /\ component = "WeatherHistory"
    /\ pc = "done"
    /\ days # state.days
    /\ state' = [state EXCEPT !.days = days]
    /\ pc' = "call"
    /\ ret' = NotReturned
    /\ UNCHANGED <<WEATHER_CODES, fn, weatherCode, isDay, historicalData,
                   component, calls, observed>>

ViewNext ==
    \/ RenderWeatherHistory
    \/ \E days \in DayChoices : RenderAgain(days)

ViewSpec == ViewInit /\ [][ViewNext]_vars

Rendered == component = "WeatherHistory" /\ pc = "done" /\ historicalData.hasDaily
Smaller(a, b) == IF a < b THEN a ELSE b

C29_CardsAgree ==
    Rendered =>
        LET summary == ret.value.summary
            analysis == ret.value.analysis.value
        IN  /\ summary.avgMaxTemp = analysis.averages.avgMaxTemp
            /\ summary.avgMinTemp = analysis.averages.avgMinTemp
            /\ summary.totalPrecip = analysis.averages.totalPrecipitation
            /\ summary.days = analysis.weatherPatterns.totalDays

====
